---- MODULE Spec2Model ----
(***************************************************************************)
(* Model of w3af's `autocomplete` authentication plugin                    *)
(* (w3af/plugins/auth/autocomplete.py).                                    *)
(*                                                                         *)
(* One plugin instance is modelled: its five configuration fields and the  *)
(* `_attempt_login` gate.  The HTTP transport, the document parser and the  *)
(* form filler are external collaborators: every call to one of them is a  *)
(* point where the environment chooses the outcome.  A method that blocks  *)
(* on the transport is a sequence of steps, one per transport round trip;  *)
(* everything the code does between two round trips is one atomic step.    *)
(*                                                                         *)
(* Strings that are only tested for emptiness are TLA+ strings; the two    *)
(* strings that are searched (check_string and the response body) are      *)
(* sequences of characters.                                                *)
(***************************************************************************)
EXTENDS Naturals, Sequences, FiniteSets

\* ---------------------------------------------------------------- bounds
\* Longest form list a page holds in the plugin's life cycle (Spec).
MaxPageForms == 1
\* Longest check_string / response body in the plugin's life cycle (Spec).
MaxPageStr == 1
\* Longest form list handed to _get_login_form called on its own (SpecForms).
MaxForms == 3
\* Longest check_string / body for has_active_session on its own (SpecSession).
MaxStr == 3

\* ------------------------------------------------------------ value sets
Threads == {1, 2}
\* Callers serialise their calls on an instance: one calling thread.
SerialThreads == {1}

Chars == {"a", "b"}
Strs(n) == UNION {[1..k -> Chars] : k \in 0..n}

Domains == {"host.tld", "other.tld"}
URL(d, p) == [domain |-> d, path |-> p]
\* The empty value an option of type URL can hold (falsy, not a URL object).
NoURL == URL("", "")

\* Python's three results of the methods, and an exception leaving the method.
PyTrue == "True"
PyFalse == "False"
PyNone == "None"
Raised == "raise"
Pending == "pending"
PyBool(b) == IF b THEN PyTrue ELSE PyFalse

\* Transport requests, by call site.
GET_LOGIN == "GET login_form_url"
SEND_FORM == "send_mutant form"
GET_CHECK == "GET check_url"

\* A form as the parser returns it.  `id` is the object's identity: its
\* position in the list get_forms() returns.
NoForm == [id |-> 0, is_login_form |-> FALSE, action_domain |-> ""]
FormSeqs(n) ==
  UNION {{s \in [1..k -> [id : 1..k, is_login_form : BOOLEAN, action_domain : Domains]] :
            \A i \in 1..k : s[i].id = i} : k \in 0..n}

\* Outcome of a call to an external collaborator.
Outcomes == {"ok", "error"}

VARIABLES
  username, password, login_form_url, check_url, check_string,  \* configuration
  _attempt_login,                                                \* the gate
  call                                                           \* per thread: the call in progress or last finished

config == <<username, password, login_form_url, check_url, check_string>>
vars == <<username, password, login_form_url, check_url, check_string, _attempt_login, call>>

\* ------------------------------------------------------------ call record
NoPrev == [op |-> "none", ret |-> PyNone, reqs |-> <<>>]
\* The option values of a call that was given none.
NoOptions ==
  [username |-> "", password |-> "", login_form_url |-> NoURL, check_url |-> NoURL,
   check_string |-> <<>>]
NoCall ==
  [op |-> "none", pc |-> "done", ret |-> PyNone, reqs |-> <<>>, log |-> <<>>,
   gate_seen |-> "none", get |-> "none", parser |-> "none", forms |-> <<>>,
   form |-> NoForm, fill |-> "none", submit |-> "none", check |-> "none",
   body |-> <<>>, logged_in |-> "none", missing |-> <<>>, prev |-> NoPrev,
   options |-> NoOptions,
   overlapped |-> FALSE,   \* another thread's call was in progress during this call
   late |-> FALSE]         \* a request of this call was sent while the gate was closed

\* A thread enters method `op`: a fresh record that remembers the result of the
\* thread's previous call.
NewCall(old, op) ==
  [NoCall EXCEPT !.op = op, !.pc = "running", !.ret = Pending,
                 !.prev = [op |-> old.op, ret |-> old.ret, reqs |-> old.reqs]]

Log(c, level, msg) == [c EXCEPT !.log = Append(@, [level |-> level, msg |-> msg])]
Request(c, kind, pc) ==
  [c EXCEPT !.reqs = Append(@, kind), !.pc = pc, !.late = @ \/ ~_attempt_login]
Return(c, v) == [c EXCEPT !.pc = "done", !.ret = v]

Idle(t) == call[t].pc = "done"

\* Thread t enters a method with call record c.  Nothing in the code keeps two
\* threads from being inside methods of one instance at the same time: the
\* records note when that happens.
Enter(t, c) ==
  [u \in Threads |->
     IF u = t THEN [c EXCEPT !.overlapped = \E v \in Threads \ {t} : ~Idle(v)]
     ELSE IF ~Idle(u) THEN [call[u] EXCEPT !.overlapped = TRUE]
     ELSE call[u]]

\* ------------------------------------------------------------------ Init
Init ==
  /\ username = ""
  /\ password = ""
  /\ login_form_url = URL("host.tld", "/login")
  /\ check_url = URL("host.tld", "/check")
  /\ check_string = <<>>
  /\ _attempt_login = TRUE
  /\ call = [t \in Threads |-> NoCall]

\* ------------------------------------------------------- option values
OptionNames == <<"username", "password", "login_form_url", "check_url", "check_string">>
Usernames == {"", "user"}
Passwords == {"", "secret"}
LoginURLs == {NoURL} \cup {URL(d, "/login") : d \in Domains}
CheckURLs == {NoURL, URL("host.tld", "/check")}
OptionLists(n) ==
  [username : Usernames, password : Passwords, login_form_url : LoginURLs,
   check_url : CheckURLs, check_string : Strs(n)]

\* `not o.get_value()` for the option called `name`.
IsEmptyOption(o, name) ==
  CASE name = "username"       -> o.username = ""
    [] name = "password"       -> o.password = ""
    [] name = "login_form_url" -> o.login_form_url = NoURL
    [] name = "check_url"      -> o.check_url = NoURL
    [] name = "check_string"   -> o.check_string = <<>>

\* Variant: the loop stops at the first empty option.
MissingOptions_FirstOnly(o) ==
  LET m == SelectSeq(OptionNames, LAMBDA name : IsEmptyOption(o, name))
  IN IF m = <<>> THEN m ELSE <<m[1]>>

\* The loop that collects the names of the options whose value is empty.
MissingOptions(o) == SelectSeq(OptionNames, LAMBDA name : IsEmptyOption(o, name))

\* --------------------------------------------------- the environment
\* What the transport can answer to a GET of `url`.  The opener accepts URL
\* objects only: handed the empty value it raises, and the caller's
\* `except Exception` turns that into the transport-error path.
GetOutcomes(url) == IF url = NoURL THEN {"error"} ELSE Outcomes

\* What filling the selected form can do: dc_from_form_params, the two
\* setters and FuzzableRequest.from_form succeed, or one of them fails (the
\* form lacks a recognisable username or password field).
FillOutcomes(form) == Outcomes

\* ------------------------------------------------------ _get_login_form
IsLoginForm(f) == f.is_login_form
GetDomain(url) == url.domain

\* Variant: the domain filter left out.
DomainDiffers_Ignored(f, url) == FALSE

\* `form_params.get_action().get_domain() != self.login_form_url.get_domain()`
DomainDiffers(f, url) == f.action_domain # GetDomain(url)

\* Variant: a later qualifying form replaces the one already chosen.
ScanStep_LastWins(c, f, url) ==
  IF ~IsLoginForm(f) THEN c
  ELSE IF DomainDiffers(f, url) THEN c
  ELSE IF c.form # NoForm
       THEN [Log(c, "debug", "There are two or more login forms") EXCEPT !.form = f]
       ELSE [c EXCEPT !.form = f]

\* One iteration of the loop over document_parser.get_forms().
ScanStep(c, f, url) ==
  IF ~IsLoginForm(f) THEN c
  ELSE IF DomainDiffers(f, url) THEN c
  ELSE IF c.form # NoForm
       THEN Log(c, "debug", "There are two or more login forms")
       ELSE [c EXCEPT !.form = f]

RECURSIVE ScanForms(_, _, _, _)
ScanForms(c, forms, i, url) ==
  IF i > Len(forms) THEN c
  ELSE ScanForms(ScanStep(c, forms[i], url), forms, i + 1, url)

\* Variant: the missing form is not reported.
AfterScan_Silent(c) == c

\* `if login_form is None: om.out.error(...)`, then `return login_form`.
AfterScan(c) ==
  IF c.form = NoForm THEN Log(c, "error", "Failed to find an HTML login form") ELSE c

\* _get_login_form from the moment the GET of login_form_url returns or raises.
GetLoginForm(c, resp, parser, forms, url) ==
  IF resp = "error"
  THEN Log([c EXCEPT !.get = "error"], "debug", "Failed to HTTP GET the login_form_url")
  ELSE IF parser = "error"
  THEN Log([c EXCEPT !.get = "ok", !.parser = "error"], "debug",
           "Failed to find a parser for the login_form_url")
  ELSE AfterScan(ScanForms([c EXCEPT !.get = "ok", !.parser = "ok", !.forms = forms],
                           forms, 1, url))

\* ----------------------------------------------------- has_active_session
RECURSIVE FindFrom(_, _, _)
FindFrom(body, s, i) ==
  IF i + Len(s) > Len(body) + 1 THEN FALSE
  ELSE IF SubSeq(body, i, i + Len(s) - 1) = s THEN TRUE
  ELSE FindFrom(body, s, i + 1)

\* Variant: check_string is looked for at the start of the body only.
Contains_PrefixOnly(body, s) == Len(s) <= Len(body) /\ SubSeq(body, 1, Len(s)) = s

\* `self.check_string in body`
Contains(body, s) == FindFrom(body, s, 1)

\* has_active_session from the moment the GET of check_url returns or raises.
HasActiveSession(c, resp, body, cs) ==
  IF resp = "error"
  THEN Log([c EXCEPT !.check = "error", !.logged_in = PyFalse], "debug",
           "Failed to check if current authentication session is active")
  ELSE LET logged_in == Contains(body, cs) IN
       Log([c EXCEPT !.check = "ok", !.body = body, !.logged_in = PyBool(logged_in)], "debug",
           IF logged_in THEN "User is currently logged into the application"
                        ELSE "User is NOT logged into the application")

\* ------------------------------------------------------------------ login
\* Variant: login() does not test the gate.
GateClosed_Ignored(gate) == FALSE

\* `if not self._attempt_login: return`
GateClosed(gate) == ~gate
ClosedGateResult == PyNone

\* Variant: login() does not test the form _get_login_form returned.
NoFormFound_Never(form) == FALSE

\* `if not form:` after _get_login_form.
NoFormFound(form) == form = NoForm

\* Variant: the gate is never closed.
GateAfterForm_NeverCloses(gate, form) == gate
\* Variant: the gate is closed after every attempt.
GateAfterForm_ClosesAlways(gate, form) == FALSE

\* `self._attempt_login = False` when no form came back, untouched otherwise.
GateAfterForm(gate, form) == IF NoFormFound(form) THEN FALSE ELSE gate

\* login() is entered: the gate test, and the GET of login_form_url is sent.
LoginCall(t) ==
  /\ Idle(t)
  /\ LET c == NewCall(call[t], "login") IN
     IF GateClosed(_attempt_login)
     THEN call' = Enter(t, Return([c EXCEPT !.gate_seen = "closed"], ClosedGateResult))
     ELSE call' = Enter(t,
            Request(Log([c EXCEPT !.gate_seen = "open"], "debug", "Logging into the application"),
                    GET_LOGIN, "get_login"))
  /\ UNCHANGED <<config, _attempt_login>>

\* _get_login_form() called on its own.
GetLoginFormCall(t) ==
  /\ Idle(t)
  /\ call' = Enter(t, Request(NewCall(call[t], "_get_login_form"), GET_LOGIN, "get_login"))
  /\ UNCHANGED <<config, _attempt_login>>

\* The rest of login() once _get_login_form has returned `c.form`, up to the
\* moment _submit_form hands the request to the transport.
AfterGetLoginForm(c, fill) ==
  IF NoFormFound(c.form) THEN Return(c, PyFalse)
  ELSE IF fill = "error" THEN Return([c EXCEPT !.fill = "error"], Raised)
  ELSE Request([c EXCEPT !.fill = "ok"], SEND_FORM, "submit")

\* The GET of login_form_url returns or raises: the rest of _get_login_form,
\* and in login() the gate update and the start of _submit_form.
LoginFormResponse(t, FS) ==
  /\ call[t].pc = "get_login"
  /\ \E resp \in GetOutcomes(login_form_url) :
     \E parser \in (IF resp = "ok" THEN Outcomes ELSE {"none"}) :
     \E forms \in (IF parser = "ok" THEN FS ELSE {<<>>}) :
       LET c1 == GetLoginForm(call[t], resp, parser, forms, login_form_url) IN
       IF call[t].op = "_get_login_form"
       THEN /\ call' = [call EXCEPT ![t] = Return(c1, IF c1.form = NoForm THEN PyNone ELSE "form")]
            /\ UNCHANGED _attempt_login
       ELSE /\ \E fill \in (IF NoFormFound(c1.form) THEN {"none"} ELSE FillOutcomes(c1.form)) :
                 call' = [call EXCEPT ![t] = AfterGetLoginForm(c1, fill)]
            /\ _attempt_login' = GateAfterForm(_attempt_login, c1.form)
  /\ UNCHANGED config

\* Variant: the session check is made even when the submission failed.
AfterSubmit_IgnoresError(c, resp) == Request([c EXCEPT !.submit = resp], GET_CHECK, "check")

\* _submit_form after send_mutant returned or raised, and in login() the call
\* of has_active_session.
AfterSubmit(c, resp) ==
  IF resp = "error"
  THEN Return(Log([c EXCEPT !.submit = "error"], "debug", "Failed to submit the login form"), PyFalse)
  ELSE Request([c EXCEPT !.submit = "ok"], GET_CHECK, "check")

SubmitResponse(t) ==
  /\ call[t].pc = "submit"
  /\ \E resp \in Outcomes : call' = [call EXCEPT ![t] = AfterSubmit(call[t], resp)]
  /\ UNCHANGED <<config, _attempt_login>>

\* has_active_session() is entered: the GET of check_url is sent.
HasActiveSessionCall(t) ==
  /\ Idle(t)
  /\ call' = Enter(t, Request(NewCall(call[t], "has_active_session"), GET_CHECK, "check"))
  /\ UNCHANGED <<config, _attempt_login>>

\* Variant: login() reports success whatever has_active_session returned.
AfterCheck_IgnoresSession(c) ==
  IF c.op = "has_active_session" THEN Return(c, c.logged_in)
  ELSE Return(Log(c, "debug", "Login success"), PyTrue)

\* What the caller of has_active_session does with its result.
AfterCheck(c) ==
  IF c.op = "has_active_session" THEN Return(c, c.logged_in)
  ELSE IF c.logged_in # PyTrue
       THEN Return(Log(c, "error", "Can't login into the web application"), PyFalse)
       ELSE Return(Log(c, "debug", "Login success"), PyTrue)

\* The GET of check_url returns or raises.
CheckResponse(t, BS) ==
  /\ call[t].pc = "check"
  /\ \E resp \in GetOutcomes(check_url) :
     \E body \in (IF resp = "ok" THEN BS ELSE {<<>>}) :
       call' = [call EXCEPT ![t] = AfterCheck(HasActiveSession(call[t], resp, body, check_string))]
  /\ UNCHANGED <<config, _attempt_login>>

\* ----------------------------------------------------------------- logout
\* Variant: logout() opens the gate again.
Logout_ReopensGate(t) ==
  /\ Idle(t)
  /\ call' = Enter(t, Return(NewCall(call[t], "logout"), PyNone))
  /\ _attempt_login' = TRUE
  /\ UNCHANGED config

Logout(t) ==
  /\ Idle(t)
  /\ call' = Enter(t, Return(NewCall(call[t], "logout"), PyNone))
  /\ UNCHANGED <<config, _attempt_login>>

\* ------------------------------------------------------------ set_options
SetOptionsResult(missing) == IF missing # <<>> THEN Raised ELSE PyNone

\* The five fields as a record, and the record after the five assignments
\* that open set_options: they come before the loop that looks for empty
\* values.
Fields ==
  [username |-> username, password |-> password, login_form_url |-> login_form_url,
   check_url |-> check_url, check_string |-> check_string]
\* Variant: the options are validated first, and kept out when one is empty.
FieldsAfterSetOptions_Atomic(old, o) ==
  IF SelectSeq(OptionNames, LAMBDA name : IsEmptyOption(o, name)) # <<>> THEN old ELSE o

FieldsAfterSetOptions(old, o) == o

\* Variant: a new configuration opens the gate again.
GateAfterSetOptions_Reopens(gate) == TRUE

\* set_options does not assign _attempt_login.
GateAfterSetOptions(gate) == gate

SetOptions(t, OL) ==
  /\ Idle(t)
  /\ \E o \in OL :
       LET new == FieldsAfterSetOptions(Fields, o)
           missing == MissingOptions(o)
       IN /\ username' = new.username
          /\ password' = new.password
          /\ check_string' = new.check_string
          /\ login_form_url' = new.login_form_url
          /\ check_url' = new.check_url
          /\ call' = Enter(t, Return([NewCall(call[t], "set_options") EXCEPT
                                        !.missing = missing, !.options = o],
                                     SetOptionsResult(missing)))
  /\ _attempt_login' = GateAfterSetOptions(_attempt_login)

\* ------------------------------------------------------ specifications
\* The life cycle of one instance driven through its public methods.
Next ==
  \E t \in SerialThreads :
    \/ LoginCall(t)
    \/ LoginFormResponse(t, FormSeqs(MaxPageForms))
    \/ SubmitResponse(t)
    \/ CheckResponse(t, Strs(MaxPageStr))
    \/ HasActiveSessionCall(t)
    \/ Logout(t)
    \/ SetOptions(t, OptionLists(MaxPageStr))

Spec == Init /\ [][Next]_vars

\* _get_login_form on its own, on an instance configured with any login URL.
InitForms ==
  /\ username = "user"
  /\ password = "secret"
  /\ login_form_url \in LoginURLs
  /\ check_url = URL("host.tld", "/check")
  /\ check_string = <<"a">>
  /\ _attempt_login = TRUE
  /\ call = [t \in Threads |-> NoCall]

NextForms ==
  \E t \in SerialThreads :
    \/ GetLoginFormCall(t)
    \/ LoginFormResponse(t, FormSeqs(MaxForms))

SpecForms == InitForms /\ [][NextForms]_vars

\* has_active_session on its own, on an instance holding any check_string.
InitSession ==
  /\ username \in Usernames
  /\ password = "secret"
  /\ login_form_url = URL("host.tld", "/login")
  /\ check_url \in CheckURLs
  /\ check_string \in Strs(MaxStr)
  /\ _attempt_login \in BOOLEAN
  /\ call = [t \in Threads |-> NoCall]

NextSession ==
  \E t \in SerialThreads :
    \/ HasActiveSessionCall(t)
    \/ CheckResponse(t, Strs(MaxStr))

SpecSession == InitSession /\ [][NextSession]_vars

\* login() called from two threads on one configured instance, with nothing
\* that serialises the calls: the steps of the two calls interleave freely.
InitConc ==
  /\ username = "user"
  /\ password = "secret"
  /\ login_form_url = URL("host.tld", "/login")
  /\ check_url = URL("host.tld", "/check")
  /\ check_string = <<"a">>
  /\ _attempt_login = TRUE
  /\ call = [t \in Threads |-> NoCall]

NextConc ==
  \E t \in Threads :
    \/ LoginCall(t)
    \/ LoginFormResponse(t, FormSeqs(MaxPageForms))
    \/ SubmitResponse(t)
    \/ CheckResponse(t, Strs(MaxPageStr))

SpecConc == InitConc /\ [][NextConc]_vars

\* =================================================================== claims
\* Vocabulary of the properties, stated without the operators of the model.
Finished(t, op) == call[t].op = op /\ call[t].pc = "done"

\* A qualifying form: classified as a login form, action on the login domain.
Qualifies(f) == f.is_login_form /\ f.action_domain = login_form_url.domain
QualifyingAt(forms) == {i \in 1..Len(forms) : Qualifies(forms[i])}
FirstQualifying(forms) ==
  CHOOSE i \in QualifyingAt(forms) : \A j \in QualifyingAt(forms) : i <= j

Entries(c, level) == {i \in 1..Len(c.log) : c.log[i].level = level}
AmbiguityEntries(c) ==
  {i \in 1..Len(c.log) : c.log[i].msg = "There are two or more login forms"}

\* `s` occurs in `body` at some offset, character by character.
OccursIn(s, body) ==
  \E off \in 0..Len(body) :
    /\ off + Len(s) <= Len(body)
    /\ \A k \in 1..Len(s) : body[off + k] = s[k]

FullPipeline == <<GET_LOGIN, SEND_FORM, GET_CHECK>>

\* ---------------------------------------------------------------------- C1
\* C1: once the gate is closed it stays closed, and every login() call that
\* starts while it is closed finishes at once having sent no request,
\* whatever calls were made in between.
C1_ClosedGateSendsNothing ==
  [][~_attempt_login =>
       /\ ~_attempt_login'
       /\ \A t \in SerialThreads :
            (call'[t] # call[t] /\ call'[t].op = "login") =>
               (call'[t].reqs = <<>> /\ call'[t].pc = "done")]_vars

\* A login() that found the gate closed, called right after a set_options()
\* that accepted a complete configuration.
C1_Witness ==
  \E t \in SerialThreads :
    /\ Finished(t, "login")
    /\ call[t].gate_seen = "closed"
    /\ call[t].prev.op = "set_options"
    /\ call[t].prev.ret = PyNone
    /\ ~_attempt_login

\* ---------------------------------------------------------------------- C2
\* C2 as the specification states it: a transport error on the GET of
\* login_form_url makes login() return False and leaves the gate open.
C2_GetErrorKeepsGateOpen ==
  \A t \in SerialThreads :
    (Finished(t, "login") /\ call[t].get = "error") =>
       (call[t].ret = PyFalse /\ _attempt_login)

\* C2 amended: a transport error on the GET of login_form_url makes login()
\* return False after that one request and closes the gate; the login() call
\* that follows sends no request.
C2_GetErrorClosesGate ==
  \A t \in SerialThreads :
    /\ (Finished(t, "login") /\ call[t].get = "error") =>
          (call[t].ret = PyFalse /\ call[t].reqs = <<GET_LOGIN>> /\ ~_attempt_login)
    /\ (call[t].op = "login" /\ call[t].prev.op = "login"
          /\ call[t].prev.ret = PyFalse /\ call[t].prev.reqs = <<GET_LOGIN>>) =>
          (call[t].reqs = <<>> /\ call[t].pc = "done")

C2_Witness ==
  \E t \in SerialThreads :
    /\ Finished(t, "login")
    /\ call[t].get = "error"
    /\ login_form_url # NoURL
    /\ ~_attempt_login

\* ---------------------------------------------------------------------- C3
\* C3: a login() call that finds the gate closed returns the boolean False.
C3_ClosedGateReturnsFalse ==
  \A t \in SerialThreads :
    (Finished(t, "login") /\ call[t].gate_seen = "closed") => call[t].ret = PyFalse

\* ---------------------------------------------------------------------- C4
\* C4: when the parsed page holds N >= 1 qualifying forms, _get_login_form
\* returns the first of them in list order and logs exactly N-1 ambiguity
\* diagnostics.
C4_FirstQualifyingFormWins ==
  \A t \in SerialThreads :
    (Finished(t, "_get_login_form") /\ call[t].parser = "ok"
       /\ QualifyingAt(call[t].forms) # {}) =>
      /\ call[t].ret = "form"
      /\ call[t].form = call[t].forms[FirstQualifying(call[t].forms)]
      /\ Cardinality(AmbiguityEntries(call[t])) = Cardinality(QualifyingAt(call[t].forms)) - 1

\* Three forms, the first not qualifying, the other two qualifying: the second
\* form is returned with one diagnostic.
C4_Witness ==
  \E t \in SerialThreads :
    /\ Finished(t, "_get_login_form")
    /\ QualifyingAt(call[t].forms) = {2, 3}
    /\ call[t].form.id = 2
    /\ Cardinality(AmbiguityEntries(call[t])) = 1

\* ---------------------------------------------------------------------- C5
\* C5: _get_login_form never returns a form whose action domain differs from
\* the domain of login_form_url, and such a form never adds an ambiguity
\* diagnostic: with at most one qualifying form there is none, and there are
\* always fewer diagnostics than qualifying forms.
C5_ForeignDomainNeverSelected ==
  \A t \in SerialThreads :
    Finished(t, "_get_login_form") =>
      /\ call[t].form # NoForm => call[t].form.action_domain = login_form_url.domain
      /\ Cardinality(QualifyingAt(call[t].forms)) <= 1 => AmbiguityEntries(call[t]) = {}
      /\ QualifyingAt(call[t].forms) # {} =>
           Cardinality(AmbiguityEntries(call[t])) < Cardinality(QualifyingAt(call[t].forms))

\* A login form of another domain comes first, a qualifying form second: the
\* second is returned and nothing is logged.
C5_Witness ==
  \E t \in SerialThreads :
    /\ Finished(t, "_get_login_form")
    /\ Len(call[t].forms) = 2
    /\ call[t].forms[1].is_login_form
    /\ call[t].forms[1].action_domain # login_form_url.domain
    /\ call[t].form.id = 2
    /\ call[t].log = <<>>

\* ---------------------------------------------------------------------- C6
\* C6: when the login page is fetched and parsed and holds no qualifying form,
\* _get_login_form returns no form and logs exactly one error, and that
\* login() returns False with the gate closed, having sent only the GET of
\* login_form_url.
C6_NoQualifyingFormClosesGate ==
  \A t \in SerialThreads :
    (Finished(t, "login") /\ call[t].parser = "ok" /\ QualifyingAt(call[t].forms) = {}) =>
      /\ call[t].form = NoForm
      /\ Cardinality(Entries(call[t], "error")) = 1
      /\ call[t].ret = PyFalse
      /\ ~_attempt_login
      /\ call[t].reqs = <<GET_LOGIN>>

\* The page held one login form, of another domain.
C6_Witness ==
  \E t \in SerialThreads :
    /\ Finished(t, "login")
    /\ call[t].parser = "ok"
    /\ Len(call[t].forms) = 1
    /\ call[t].forms[1].is_login_form
    /\ QualifyingAt(call[t].forms) = {}
    /\ ~_attempt_login

\* ---------------------------------------------------------------------- C7
\* C7: has_active_session() returns True or False, never raises, and returns
\* True exactly when the GET of check_url succeeded and check_string occurs in
\* the body as a literal substring.
C7_ActiveIffSubstring ==
  \A t \in SerialThreads :
    Finished(t, "has_active_session") =>
      /\ call[t].ret \in {PyTrue, PyFalse}
      /\ call[t].ret = PyTrue <=>
           (call[t].check = "ok" /\ OccursIn(check_string, call[t].body))

\* check_string of two characters found at the second offset of the body.
C7_Witness ==
  \E t \in SerialThreads :
    /\ Finished(t, "has_active_session")
    /\ call[t].ret = PyTrue
    /\ Len(check_string) = 2
    /\ Len(call[t].body) = 3
    /\ SubSeq(call[t].body, 1, 2) # check_string

\* ---------------------------------------------------------------------- C8
\* C8: has_active_session() returns False whenever the body of the check page
\* is empty, whatever check_string the instance holds.
C8_EmptyBodyNotActive ==
  \A t \in SerialThreads :
    (Finished(t, "has_active_session") /\ call[t].check = "ok" /\ call[t].body = <<>>) =>
       call[t].ret = PyFalse

\* ---------------------------------------------------------------------- C9
\* No stage of the call met a failure: every answer the call received was a
\* success, the page held a qualifying form and the body held check_string.
NoFailureSeen(c) ==
  /\ c.get # "error" /\ c.parser # "error"
  /\ c.parser = "ok" => QualifyingAt(c.forms) # {}
  /\ c.fill # "error" /\ c.submit # "error" /\ c.check # "error"
  /\ c.check = "ok" => OccursIn(check_string, c.body)

\* C9: login() keeps no "already logged in" state: a login() that follows a
\* login() that returned True, and meets no failure, sends the full sequence
\* of requests and returns True, as the call before it did.
C9_NoLoggedInCache ==
  \A t \in SerialThreads :
    (Finished(t, "login") /\ call[t].prev.op = "login" /\ call[t].prev.ret = PyTrue
       /\ NoFailureSeen(call[t])) =>
      /\ call[t].prev.reqs = FullPipeline
      /\ call[t].reqs = FullPipeline
      /\ call[t].ret = PyTrue

C9_Witness ==
  \E t \in SerialThreads :
    /\ Finished(t, "login")
    /\ call[t].ret = PyTrue
    /\ call[t].reqs = FullPipeline
    /\ call[t].prev = [op |-> "login", ret |-> PyTrue, reqs |-> FullPipeline]

\* --------------------------------------------------------------------- C10
\* C10: when a form was selected and the submission fails with a transport
\* error, or the session check reports no active session, login() returns
\* False and the gate stays open; the login() call that follows starts again
\* with the GET of login_form_url.
C10_LateFailureKeepsGateOpen ==
  \A t \in SerialThreads :
    /\ (Finished(t, "login") /\ call[t].form # NoForm
          /\ (call[t].submit = "error" \/ call[t].logged_in = PyFalse)) =>
          (call[t].ret = PyFalse /\ _attempt_login)
    /\ (call[t].op = "login" /\ call[t].prev.op = "login"
          /\ call[t].prev.ret = PyFalse /\ Len(call[t].prev.reqs) >= 2) =>
          (call[t].gate_seen = "open" /\ call[t].reqs # <<>> /\ call[t].reqs[1] = GET_LOGIN)

\* A login() whose submission failed, called after a login() whose session
\* check found no active session.
C10_Witness ==
  \E t \in SerialThreads :
    /\ Finished(t, "login")
    /\ call[t].submit = "error"
    /\ call[t].prev = [op |-> "login", ret |-> PyFalse, reqs |-> FullPipeline]
    /\ _attempt_login

\* --------------------------------------------------------------------- C11
\* The names of the options of `o` whose value is empty.
EmptyNames(o) ==
  (IF o.username = "" THEN {"username"} ELSE {})
    \cup (IF o.password = "" THEN {"password"} ELSE {})
    \cup (IF o.login_form_url = NoURL THEN {"login_form_url"} ELSE {})
    \cup (IF o.check_url = NoURL THEN {"check_url"} ELSE {})
    \cup (IF o.check_string = <<>> THEN {"check_string"} ELSE {})

\* C11: set_options raises exactly when one of the five options is empty, and
\* the error names each empty option once and no populated one.
C11_RaisesIffOptionEmpty ==
  \A t \in SerialThreads :
    Finished(t, "set_options") =>
      /\ call[t].ret = Raised <=> EmptyNames(call[t].options) # {}
      /\ call[t].ret # Raised => call[t].ret = PyNone
      /\ {call[t].missing[i] : i \in 1..Len(call[t].missing)} = EmptyNames(call[t].options)
      /\ Len(call[t].missing) = Cardinality(EmptyNames(call[t].options))

\* Two options empty, three populated.
C11_Witness ==
  \E t \in SerialThreads :
    /\ Finished(t, "set_options")
    /\ call[t].ret = Raised
    /\ call[t].missing = <<"password", "check_string">>
    /\ call[t].options.username = "user"

\* --------------------------------------------------------------------- C12
\* C12: login() sends no request while one of the five configuration fields
\* is empty: in every state in which a login() call has sent a request, all
\* five fields are populated.
C12_NoRequestWhileUnconfigured ==
  \A t \in SerialThreads :
    (call[t].op = "login" /\ call[t].reqs # <<>>) => EmptyNames(Fields) = {}

\* --------------------------------------------------------------------- C13
\* C13: when filling the selected form fails, login() returns False, and no
\* failure of a collaborator leaves login() as an exception.
C13_FillErrorReturnsFalse ==
  \A t \in SerialThreads :
    /\ (Finished(t, "login") /\ call[t].fill = "error") => call[t].ret = PyFalse
    /\ call[t].op = "login" => call[t].ret # Raised

\* --------------------------------------------------------------------- C14
\* C14: when the login page is fetched and no parser is available for the
\* response, login() returns False without raising, having sent neither the
\* form nor the GET of check_url.
C14_NoParserReturnsFalse ==
  \A t \in SerialThreads :
    (call[t].op = "login" /\ call[t].parser = "error") =>
      /\ call[t].pc = "done"
      /\ call[t].ret = PyFalse
      /\ call[t].reqs = <<GET_LOGIN>>

C14_Witness ==
  \E t \in SerialThreads :
    /\ Finished(t, "login")
    /\ call[t].get = "ok"
    /\ call[t].parser = "error"
    /\ Entries(call[t], "error") = {}
    /\ call[t].ret = PyFalse

\* --------------------------------------------------------------------- C15
\* C15: logout() is a no-op in every state: it sends no request, returns
\* None, and leaves the gate and the five configuration fields as they were.
C15_LogoutIsNoOp ==
  [][\A t \in SerialThreads :
       (call'[t] # call[t] /\ call'[t].op = "logout") =>
          /\ call'[t].pc = "done"
          /\ call'[t].reqs = <<>>
          /\ call'[t].ret = PyNone
          /\ _attempt_login' = _attempt_login
          /\ config' = config]_vars

\* logout() called on an instance whose gate a login() has closed.
C15_Witness ==
  \E t \in SerialThreads :
    /\ Finished(t, "logout")
    /\ call[t].prev.op = "login"
    /\ call[t].prev.ret = PyFalse
    /\ ~_attempt_login

\* --------------------------------------------------------------------- C16
\* C16: the gate is one-way: it is open on construction, and no step of any
\* method (login, logout, has_active_session, set_options whether it raises
\* or not) takes it from closed to open.
C16_GateIsOneWay ==
  /\ _attempt_login = TRUE
  /\ [][~_attempt_login => ~_attempt_login']_vars

\* With the gate closed, set_options raised on an incomplete configuration
\* and was then called again with a complete one: the gate is still closed.
C16_Witness ==
  \E t \in SerialThreads :
    /\ Finished(t, "set_options")
    /\ call[t].ret = PyNone
    /\ call[t].prev.op = "set_options"
    /\ call[t].prev.ret = Raised
    /\ ~_attempt_login

\* --------------------------------------------------------------------- C17
\* C17: within one login() call the requests are sent in pipeline order, each
\* at most once: the form only after the GET of login_form_url succeeded and
\* a qualifying form was selected, the GET of check_url only after the
\* submission succeeded; and login() returns True exactly when fetch, form
\* selection, submission and session check all succeeded in that call.
C17_StagesInOrder ==
  \A t \in SerialThreads :
    call[t].op = "login" =>
      /\ Len(call[t].reqs) <= Len(FullPipeline)
      /\ \A i \in 1..Len(call[t].reqs) : call[t].reqs[i] = FullPipeline[i]
      /\ Len(call[t].reqs) >= 2 =>
           /\ call[t].get = "ok"
           /\ \E i \in QualifyingAt(call[t].forms) : call[t].form = call[t].forms[i]
      /\ Len(call[t].reqs) >= 3 => call[t].submit = "ok"
      /\ call[t].pc = "done" =>
           (call[t].ret = PyTrue <=>
              /\ call[t].get = "ok"
              /\ call[t].form # NoForm
              /\ call[t].submit = "ok"
              /\ call[t].check = "ok"
              /\ OccursIn(check_string, call[t].body))

\* All three requests were sent and the body of the check page did not hold
\* check_string.
C17_Witness ==
  \E t \in SerialThreads :
    /\ Finished(t, "login")
    /\ call[t].reqs = FullPipeline
    /\ call[t].check = "ok"
    /\ ~OccursIn(check_string, call[t].body)
    /\ call[t].ret = PyFalse

\* --------------------------------------------------------------------- C18
\* _get_login_form came back without a form, for one of its three reasons.
NoFormReturned(c) ==
  \/ c.get = "error"
  \/ c.parser = "error"
  \/ c.parser = "ok" /\ QualifyingAt(c.forms) = {}

\* C18: a login() entered with the gate open returns with the gate closed
\* exactly when _get_login_form returned no form (transport error, no parser,
\* or no qualifying form), and no other step of any method closes the gate.
C18_GateClosedIffNoForm ==
  /\ [](\A t \in SerialThreads :
          (Finished(t, "login") /\ call[t].gate_seen = "open") =>
             (~_attempt_login <=> NoFormReturned(call[t])))
  /\ [][(_attempt_login /\ ~_attempt_login') =>
          \E t \in SerialThreads :
            /\ call[t].op = "login" /\ call[t].pc = "get_login"
            /\ call'[t].pc = "done"
            /\ NoFormReturned(call'[t])]_vars

\* A login() that succeeded left the gate open; the next one found no parser
\* and closed it.
C18_Witness ==
  \E t \in SerialThreads :
    /\ Finished(t, "login")
    /\ call[t].gate_seen = "open"
    /\ call[t].parser = "error"
    /\ call[t].prev.op = "login"
    /\ call[t].prev.ret = PyTrue
    /\ ~_attempt_login

\* --------------------------------------------------------------------- C19
\* C19: set_options is not atomic on error: after a call that raised the
\* configuration error the instance holds the values the call was given,
\* the empty ones included, and not its previous configuration.
C19_SetOptionsNotAtomic ==
  \A t \in SerialThreads :
    (Finished(t, "set_options") /\ call[t].ret = Raised) =>
      /\ Fields = call[t].options
      /\ EmptyNames(Fields) # {}

\* A complete configuration was accepted, then a call with an empty username
\* raised: the username of the instance is now empty.
C19_Witness ==
  \E t \in SerialThreads :
    /\ Finished(t, "set_options")
    /\ call[t].ret = Raised
    /\ call[t].prev.op = "set_options"
    /\ call[t].prev.ret = PyNone
    /\ username = ""

\* --------------------------------------------------------------------- C20
\* C20: the gate is read once, at the start of login(), and written later
\* with no synchronisation.  A login() call sends a request while the gate is
\* closed only if it read the gate open and ran interleaved with another
\* call; calls that are serialised never do.
C20_LateRequestOnlyWhenInterleaved ==
  \A t \in Threads :
    (call[t].op = "login" /\ call[t].late) =>
       (call[t].gate_seen = "open" /\ call[t].overlapped)

\* One call closed the gate while the other was waiting for the login page;
\* the other went on to submit the form and check the session, and returned
\* True with the gate closed.
C20_Witness ==
  \E t \in Threads :
    /\ Finished(t, "login")
    /\ call[t].late
    /\ call[t].reqs = FullPipeline
    /\ call[t].ret = PyTrue
    /\ ~_attempt_login

====
